---- MODULE Spec2Model ----
(***************************************************************************)
(* A model of the mcp_codemode pipeline engine: the catalog utilities,     *)
(* the batch filter, the canonical call names, the execution wirer and     *)
(* runMCPCode.                                                             *)
(*                                                                         *)
(* Text is modelled as a sequence of one-character strings, so that        *)
(* split, join, toUpperCase and the regular expressions of the source act  *)
(* on characters as they do in the code.  A JavaScript object is modelled  *)
(* as the sequence of its entries in insertion order.                      *)
(***************************************************************************)
EXTENDS Integers, Sequences, FiniteSets, TLC

VARIABLES
    pc,               \* position of the modelled call
    catalog,          \* the ToolCatalog handed to the call
    selectedPaths,    \* filterToolsForQuery / reconstructCatalog: selectedPaths
    filteredCatalog,  \* the catalog reconstructCatalog built
    flatPaths,        \* listAllToolPaths(filteredCatalog)
    maxToolsPerPrompt,     \* filterToolsForQuery: options.maxToolsPerPrompt
    maxConcurrentThreads,  \* filterToolsForQuery: options.maxConcurrentThreads
    batches,          \* filterToolsForQuery: batches
    iWave,            \* filterToolsForQuery: the wave loop's index i
    callState,        \* per batch: the state of its filterToolBatch promise
    responses,        \* per batch: what the relevance call returned
    results,          \* per batch: the value its filterToolBatch promise holds
    completed,        \* the batches of the current wave, in completion order
    totalTools,       \* FilterToolsResult.totalTools
    selectedTools,    \* FilterToolsResult.selectedTools
    interfacesCode,        \* generateToolsCode: the interface names it printed
    functionDeclarations,  \* generateFunctionDeclarations: the names it declared
    toolFunctions,    \* buildToolFunctions: toolFunctions, [key, value] entries
    calledName,       \* the call name a generated program uses
    mainCode,         \* the generated program (implementationCode)
    processedCode,    \* executeInProcess: the entry statement left after replace
    mainInvocations,  \* how many times main() was entered
    toolLog,          \* the paths logged as "[MCP Tool Call]", in order
    mains,            \* the state of each running main()
    execResult,       \* ExecuteCodeResult
    runEnvironment,   \* CodeModeMCP.runEnvironment
    pseudocode,       \* where the plan came from: the model or the fallback
    compilesSuccessfully,  \* ImplementCodeResult.compilesSuccessfully
    executeCodeCalls, \* how many times runMCPCode called executeCode
    runResult,        \* what runMCPCode returned or threw
    maxToolCalls,     \* runMCPCode: options.maxToolCalls
    latency,          \* the milliseconds an awaited stage of this run takes
    clock,            \* Date.now()
    stages,           \* the stages the run has started, in order
    timings,          \* runMCPCode: timings
    heap,             \* the objects of the catalogs, by reference
    filteredRoot,     \* reconstructCatalog: the reference it returns
    parameters,       \* MCPTool.parameters of the tool an interface is made for
    interfaceMembers, \* generateToolInterfaceCode: interfaceMembers
    consumed          \* the fields of the instance as each stage of a run read them

filterVars == <<maxToolsPerPrompt, maxConcurrentThreads, batches, iWave, callState,
                responses, results, completed, totalTools, selectedTools>>

nameVars == <<interfacesCode, functionDeclarations, toolFunctions, calledName>>

execVars == <<mainCode, processedCode, mainInvocations, toolLog, mains, execResult>>

runInputs == <<runEnvironment, maxToolCalls, latency>>

heapVars == <<heap, filteredRoot>>

paramVars == <<parameters, interfaceMembers>>

runVars == <<runInputs, pseudocode, compilesSuccessfully, executeCodeCalls, runResult,
             clock, stages, timings, heapVars, paramVars, consumed>>

stageVars == <<nameVars, execVars, runVars>>

vars == <<pc, catalog, selectedPaths, filteredCatalog, flatPaths, filterVars, stageVars>>

\* ------------------------------------------------------------------ bounds

\* Tools of a catalog.
MaxTools == 4
\* Largest options.maxToolsPerPrompt (batch size B).
MaxBatch == 2
\* Largest options.maxConcurrentThreads (wave width W).
MaxThreads == 2
\* The largest number of actions a provider returns.
MaxActions == 2
\* The largest number of tool calls a generated program makes.
MaxCalls == 2
MaxParams == 2

\* ------------------------------------------------------------------ text

Range(s) == {s[i] : i \in 1..Len(s)}

NoDup(s) == \A i, j \in 1..Len(s) : i # j => s[i] # s[j]

\* The index of the first occurrence of character c in s, 0 when there is none.
IndexOf(s, c) ==
    IF \E i \in 1..Len(s) : s[i] = c
    THEN CHOOSE i \in 1..Len(s) : s[i] = c /\ \A j \in 1..(i - 1) : s[j] # c
    ELSE 0

\* String.prototype.split(sep) for a one-character separator: "" gives <<"">>.
RECURSIVE Split(_, _)
Split(s, sep) ==
    LET i == IndexOf(s, sep)
    IN  IF i = 0
        THEN <<s>>
        ELSE <<SubSeq(s, 1, i - 1)>> \o Split(SubSeq(s, i + 1, Len(s)), sep)

\* Array.prototype.join(sep).
RECURSIVE Join(_, _)
Join(parts, sep) ==
    IF Len(parts) = 0 THEN <<>>
    ELSE IF Len(parts) = 1 THEN parts[1]
    ELSE parts[1] \o sep \o Join(Tail(parts), sep)

Digits == {"0", "1", "2", "3", "4", "5", "6", "7", "8", "9"}

\* The letters, lower case and upper case.
Lowers ==
    <<"a", "b", "c", "d", "e", "f", "g", "h", "i", "j", "k", "l", "m",
      "n", "o", "p", "q", "r", "s", "t", "u", "v", "w", "x", "y", "z">>

Uppers ==
    <<"A", "B", "C", "D", "E", "F", "G", "H", "I", "J", "K", "L", "M",
      "N", "O", "P", "Q", "R", "S", "T", "U", "V", "W", "X", "Y", "Z">>

LowerChar(c) ==
    IF \E k \in 1..Len(Uppers) : Uppers[k] = c
    THEN Lowers[CHOOSE k \in 1..Len(Uppers) : Uppers[k] = c]
    ELSE c

UpperChar(c) ==
    IF \E k \in 1..Len(Lowers) : Lowers[k] = c
    THEN Uppers[CHOOSE k \in 1..Len(Lowers) : Lowers[k] = c]
    ELSE c

\* String.prototype.toLowerCase().
ToLower(s) == [k \in 1..Len(s) |-> LowerChar(s[k])]

\* String.prototype.toUpperCase().
ToUpper(s) == [k \in 1..Len(s) |-> UpperChar(s[k])]

\* --------------------------------------------------------------- catalogs

\* An MCPTool object with the given name.
MkTool(name) == [kind |-> "tool", name |-> name, entries |-> <<>>]

\* A ToolCatalog object with the given entries, each [key, value].
MkCatalog(entries) == [kind |-> "catalog", name |-> <<>>, entries |-> entries]

EmptyCatalog == MkCatalog(<<>>)

isMCPTool(obj) == obj.kind = "tool"

\* `key in obj`.
HasKey(obj, key) == \E i \in 1..Len(obj.entries) : obj.entries[i].key = key

\* obj[key], for a key the object has.
GetKey(obj, key) ==
    LET i == CHOOSE i \in 1..Len(obj.entries) : obj.entries[i].key = key
    IN  obj.entries[i].value

\* obj[key] = value: an existing key keeps its place, a new one is appended.
SetKey(obj, key, value) ==
    IF HasKey(obj, key)
    THEN [obj EXCEPT !.entries =
            [i \in 1..Len(obj.entries) |->
                IF obj.entries[i].key = key
                THEN [key |-> key, value |-> value]
                ELSE obj.entries[i]]]
    ELSE [obj EXCEPT !.entries = Append(obj.entries, [key |-> key, value |-> value])]

RECURSIVE listAllToolPaths(_, _)
RECURSIVE ListEntries(_, _, _)

\* The for-loop of listAllToolPaths over Object.entries(catalog), from entry i.
ListEntries(cat, prefix, i) ==
    IF i > Len(cat.entries) THEN <<>>
    ELSE
        LET key == cat.entries[i].key
            value == cat.entries[i].value
            currentPath == IF prefix # <<>> THEN prefix \o <<".">> \o key ELSE key
        IN  (IF isMCPTool(value)
             THEN <<currentPath>>
             ELSE listAllToolPaths(value, currentPath))
            \o ListEntries(cat, prefix, i + 1)

listAllToolPaths(cat, prefix) == ListEntries(cat, prefix, 1)

NotFound == [kind |-> "null", name |-> <<>>, entries |-> <<>>]

\* The for-loop of getToolByPath over the parts that are left.
RECURSIVE WalkParts(_, _)
WalkParts(current, parts) ==
    IF Len(parts) = 0
    THEN (IF isMCPTool(current) THEN current ELSE NotFound)
    ELSE IF isMCPTool(current) THEN NotFound
    ELSE IF HasKey(current, Head(parts))
         THEN WalkParts(GetKey(current, Head(parts)), Tail(parts))
         ELSE NotFound

getToolByPath(cat, path) == WalkParts(cat, Split(path, "."))

\* reconstructCatalog's navigate/create loop and final assignment for one path.
RECURSIVE InsertAt(_, _, _)
InsertAt(current, parts, tool) ==
    IF Len(parts) = 1
    THEN SetKey(current, parts[1], tool)
    ELSE LET part == Head(parts)
             child == IF HasKey(current, part) THEN GetKey(current, part) ELSE EmptyCatalog
         IN  SetKey(current, part, InsertAt(child, Tail(parts), tool))

\* The for-loop of reconstructCatalog over selectedPaths, from path i.
RECURSIVE ReconstructFrom(_, _, _, _)
ReconstructFrom(acc, originalCatalog, paths, i) ==
    IF i > Len(paths) THEN acc
    ELSE
        LET tool == getToolByPath(originalCatalog, paths[i])
        IN  IF tool = NotFound
            THEN ReconstructFrom(acc, originalCatalog, paths, i + 1)
            ELSE ReconstructFrom(InsertAt(acc, Split(paths[i], "."), tool),
                                 originalCatalog, paths, i + 1)

reconstructCatalog(originalCatalog, paths) ==
    ReconstructFrom(EmptyCatalog, originalCatalog, paths, 1)

\* ----------------------------------------------------- catalogs as inputs

\* Sequences of at most n elements of S.
SeqsUpTo(S, n) == UNION {[1..k -> S] : k \in 0..n}

\* Whether key sequence p is a proper prefix of key sequence q.
IsProperPrefix(p, q) == Len(p) < Len(q) /\ SubSeq(q, 1, Len(p)) = p

\* The places (key sequences from the root) where a catalog of the model may
\* hold a tool.  A key is any string, so some keys hold the separator of
\* tool paths.
Places ==
    { <<(<<"a">>)>>, <<(<<"b">>)>>,
      <<(<<"a">>), (<<"b">>)>>, <<(<<"b">>), (<<"a">>)>>,
      <<(<<"a", ".", "b">>)>>, <<(<<"b">>), (<<"a", ".", "b">>)>> }

\* The name of the tool at a place: the provider's slug for it.
NameAt(place) == ToUpper(Join(place, <<"_">>))

\* The catalog that holds one tool at each of the places, keys in the order
\* in which the places name them.
RECURSIVE CatalogWith(_)
CatalogWith(places) ==
    IF Len(places) = 0 THEN EmptyCatalog
    ELSE LET last == places[Len(places)]
         IN  InsertAt(CatalogWith(SubSeq(places, 1, Len(places) - 1)), last, MkTool(NameAt(last)))

\* No key names both a tool and a sub-catalog.
WellFormed(places) ==
    /\ NoDup(places)
    /\ \A x, y \in 1..Len(places) : ~IsProperPrefix(places[x], places[y])

Catalogs == {CatalogWith(ps) : ps \in {q \in SeqsUpTo(Places, MaxTools) : WellFormed(q)}}

\* ------------------------------------------------------------ tool providers

\* String.prototype.startsWith.
StartsWith(s, prefix) == Len(prefix) <= Len(s) /\ SubSeq(s, 1, Len(prefix)) = prefix

\* String.prototype.substring(from), from counted from 0.
Substring(s, from) == SubSeq(s, from + 1, Len(s))

\* Array.prototype.filter(p => p.length > 0).
RECURSIVE NonEmptyParts(_)
NonEmptyParts(parts) ==
    IF Len(parts) = 0 THEN <<>>
    ELSE (IF Len(Head(parts)) > 0 THEN <<Head(parts)>> ELSE <<>>) \o NonEmptyParts(Tail(parts))

\* toolkit.name.toLowerCase().replace(/[^a-z0-9]/g, '_')
AppName(toolkitName) ==
    LET lower == ToLower(toolkitName)
    IN  [k \in 1..Len(lower) |->
            IF lower[k] \in Range(Lowers) \cup Digits THEN lower[k] ELSE "_"]

\* ComposioProvider.organizeCatalog: the keys under which one action is filed.
ComposioPlace(action) ==
    LET slug == ToUpper(action.slug)
        toolkitPrefix == ToUpper(action.toolkitSlug)
        afterPrefix == IF StartsWith(slug, toolkitPrefix)
                       THEN Substring(slug, Len(toolkitPrefix)) ELSE slug
        remainingSlug == IF StartsWith(slug, toolkitPrefix) /\ StartsWith(afterPrefix, <<"_">>)
                         THEN Substring(afterPrefix, 1) ELSE afterPrefix
        parts == NonEmptyParts(Split(remainingSlug, "_"))
    IN  IF Len(parts) >= 2
        THEN <<AppName(action.toolkitName), ToLower(parts[1]),
               ToLower(Join(Tail(parts), <<"_">>))>>
        ELSE <<AppName(action.toolkitName), ToLower(remainingSlug)>>

\* PipedreamProvider.organizeCatalog: the keys under which one action is filed
\* (action.app is not set).
PipedreamPlace(action) ==
    LET parts == Split(action.slug, "-")
        appName == IF Len(parts[1]) > 0 THEN parts[1] ELSE <<"g", "e", "n", "e", "r", "a", "l">>
    IN  IF Len(parts) > 2
        THEN <<appName,
               IF Len(parts[2]) > 0 THEN parts[2] ELSE <<"a", "c", "t", "i", "o", "n", "s">>,
               Join(SubSeq(parts, 3, Len(parts)), <<"-">>)>>
        ELSE <<appName,
               IF Len(Join(Tail(parts), <<"-">>)) > 0
               THEN Join(Tail(parts), <<"-">>) ELSE action.slug>>

\* convertActionToTool, of either provider: the tool is named by the slug or key.
convertActionToTool(action) == MkTool(action.slug)

ActionPlace(action) ==
    IF action.provider = "composio" THEN ComposioPlace(action) ELSE PipedreamPlace(action)

\* organizeCatalog, of either provider, over the actions in order.
RECURSIVE organizeCatalog(_)
organizeCatalog(actions) ==
    IF Len(actions) = 0 THEN EmptyCatalog
    ELSE LET action == actions[Len(actions)]
         IN  InsertAt(organizeCatalog(SubSeq(actions, 1, Len(actions) - 1)),
                      ActionPlace(action), convertActionToTool(action))

ComposioAction(slug, toolkitName, toolkitSlug) ==
    [provider |-> "composio", slug |-> slug, toolkitName |-> toolkitName,
     toolkitSlug |-> toolkitSlug]

PipedreamAction(key) ==
    [provider |-> "pipedream", slug |-> key, toolkitName |-> <<>>, toolkitSlug |-> <<>>]

\* The actions a provider may return: toolkits named like their slug and
\* not, slugs with and without a category, keys with hyphens.
Actions ==
    { ComposioAction(<<"A", "_", "X", "_", "Y">>, <<"A">>, <<"a">>),
      ComposioAction(<<"A", "_", "X">>, <<"A">>, <<"a">>),
      ComposioAction(<<"A", "_", "Y", "_", "X">>, <<"A">>, <<"a">>),
      ComposioAction(<<"B", "_", "X", "_", "Y">>, <<"B">>, <<"B">>),
      ComposioAction(<<"A", "B", "_", "X", "_", "Y">>, <<"A", " ", "B">>, <<"A", "B">>),
      ComposioAction(<<"A", "B", "_", "X">>, <<"A", " ", "B">>, <<"a", "b">>),
      ComposioAction(<<"A", "_", "B", "_", "X", "_", "Y">>, <<"A">>, <<"a">>),
      PipedreamAction(<<"a", "-", "x", "-", "y">>),
      PipedreamAction(<<"b", "-", "x">>) }

\* No action is filed under a key that holds a sub-catalog, or the reverse.
Organizable(actions) ==
    /\ NoDup([k \in 1..Len(actions) |-> ActionPlace(actions[k])])
    /\ \A x, y \in 1..Len(actions) :
           ~IsProperPrefix(ActionPlace(actions[x]), ActionPlace(actions[y]))

ProviderCatalogs ==
    {organizeCatalog(acts) : acts \in {q \in SeqsUpTo(Actions, MaxActions) : Organizable(q)}}

\* ------------------------------------------------------ canonical call names

\* The characters \w of a regular expression matches.
WordChars == Range(Lowers) \cup Range(Uppers) \cup Digits \cup {"_"}

\* capitalize(str): the first character in upper case.
capitalize(str) ==
    IF Len(str) = 0 THEN str ELSE <<UpperChar(str[1])>> \o Tail(str)

ParamsText == <<"P", "a", "r", "a", "m", "s">>

\* generateToolInterfaceCode: interfaceName, the name of the one interface
\* the tool's code exports.
interfaceName(tool) == capitalize(tool.name) \o ParamsText

\* generateToolsCode: for each tool path of the catalog, the interface of its tool.
generateToolsCode(cat) ==
    LET paths == listAllToolPaths(cat, <<>>)
    IN  [k \in 1..Len(paths) |-> interfaceName(getToolByPath(cat, paths[k]))]

\* Whether /export\s+interface\s+(\w+Params)\s*\{/ matches the header of the
\* interface with this name: \w+ needs one word character or more before
\* the final "Params", and nothing but word characters up to the brace.
MatchesInterfaceRegex(iname) ==
    /\ Len(iname) > Len(ParamsText)
    /\ SubSeq(iname, Len(iname) - Len(ParamsText) + 1, Len(iname)) = ParamsText
    /\ \A k \in 1..Len(iname) : iname[k] \in WordChars

\* paramsInterfaceName.replace(/Params$/, '')
StripParams(iname) == SubSeq(iname, 1, Len(iname) - Len(ParamsText))

\* generateFunctionDeclarations: the function names declared, in order.
RECURSIVE generateFunctionDeclarations(_)
generateFunctionDeclarations(code) ==
    IF Len(code) = 0 THEN <<>>
    ELSE (IF MatchesInterfaceRegex(Head(code)) THEN <<StripParams(Head(code))>> ELSE <<>>)
         \o generateFunctionDeclarations(Tail(code))

\* pathToFunctionName: split on '.', join with '_', upper case.
pathToFunctionName(toolPath) == ToUpper(Join(Split(toolPath, "."), <<"_">>))

\* The for-loop of buildToolFunctions over toolPaths, from path i.
RECURSIVE BuildFrom(_, _, _, _)
BuildFrom(acc, cat, toolPaths, i) ==
    IF i > Len(toolPaths) THEN acc
    ELSE
        LET found == getToolByPath(cat, toolPaths[i])
        IN  IF found = NotFound
            THEN BuildFrom(acc, cat, toolPaths, i + 1)
            ELSE BuildFrom(SetKey(acc, pathToFunctionName(toolPaths[i]),
                                  [path |-> toolPaths[i], tool |-> found]),
                           cat, toolPaths, i + 1)

buildToolFunctions(cat, toolPaths) == BuildFrom(EmptyCatalog, cat, toolPaths, 1).entries

\* The names toolFunctions binds.
BoundNames(functions) == {functions[k].key : k \in 1..Len(functions)}

\* The binding a name resolves to in the evaluation scope.
Binding(functions, name) ==
    functions[CHOOSE k \in 1..Len(functions) : functions[k].key = name].value

\* ------------------------------------------------------- execution wirer

\* What \s of a regular expression matches, among the tokens of a program.
IsSpaceToken(t) == t \in {" ", "\n"}

Lit(t) == [kind |-> "lit", token |-> t]
Spaces == [kind |-> "spaces", token |-> ""]
NotClosing == [kind |-> "notclosing", token |-> ""]
Opt(t) == [kind |-> "opt", token |-> t]

\* /main\s*\(\s*\)\s*\.then\([^)]+\)\s*\.catch\([^)]+\);?\s*$/s
ThenCatchRegex ==
    <<Lit("main"), Spaces, Lit("("), Spaces, Lit(")"), Spaces,
      Lit(".then"), Lit("("), NotClosing, Lit(")"), Spaces,
      Lit(".catch"), Lit("("), NotClosing, Lit(")"), Opt(";"), Spaces>>

\* /main\s*\(\s*\)\s*\.then\([^)]+\);?\s*$/s
ThenRegex ==
    <<Lit("main"), Spaces, Lit("("), Spaces, Lit(")"), Spaces,
      Lit(".then"), Lit("("), NotClosing, Lit(")"), Opt(";"), Spaces>>

\* Whether the text from token i on matches the regular expression from its
\* element j on, up to the end of the text ($).  \s* is any run of white
\* space, [^)]+ one token or more none of which is ")".
RECURSIVE MatchesFrom(_, _, _, _)
MatchesFrom(text, i, regex, j) ==
    IF j > Len(regex) THEN i > Len(text)
    ELSE
        LET e == regex[j]
            here == i <= Len(text)
        IN  CASE e.kind = "lit" ->
                    here /\ text[i] = e.token /\ MatchesFrom(text, i + 1, regex, j + 1)
              [] e.kind = "spaces" ->
                    \/ MatchesFrom(text, i, regex, j + 1)
                    \/ here /\ IsSpaceToken(text[i]) /\ MatchesFrom(text, i + 1, regex, j)
              [] e.kind = "notclosing" ->
                    /\ here
                    /\ text[i] # ")"
                    /\ \/ MatchesFrom(text, i + 1, regex, j + 1)
                       \/ MatchesFrom(text, i + 1, regex, j)
              [] e.kind = "opt" ->
                    \/ MatchesFrom(text, i, regex, j + 1)
                    \/ here /\ text[i] = e.token /\ MatchesFrom(text, i + 1, regex, j + 1)

\* text.replace(regex, ''): the leftmost match is removed; it ends the text.
RegexRemove(text, regex) ==
    IF \E i \in 1..Len(text) : MatchesFrom(text, i, regex, 1)
    THEN LET first == CHOOSE i \in 1..Len(text) :
                          /\ MatchesFrom(text, i, regex, 1)
                          /\ \A k \in 1..(i - 1) : ~MatchesFrom(text, k, regex, 1)
         IN  SubSeq(text, 1, first - 1)
    ELSE text

\* The entry statement the implementation prompt asks for.
PrescribedEntry ==
    <<"main", "(", ")", "\n",
      ".then", "(", "result", "=>", "console.log", "(", "'Result:'", ",", "result", ")", ")", "\n",
      ".catch", "(", "error", "=>", "console.error", "(", "'Error:'", ",", "error", ")", ")", ";">>

\* Other entry statements a model writes, and none.
Entries ==
    { PrescribedEntry,
      <<"main", "(", ")", ".then", "(", "console.log", ")",
        ".catch", "(", "console.error", ")", ";", "\n">>,
      <<"main", " ", "(", ")", ".then", "(", "console.log", ")", "\n">>,
      <<>> }

\* The text of a generated program: main's definition, then the entry statement.
CodeText(program) ==
    <<"async function", "main", "(", ")", "{", "body", "}", "\n">> \o program.entry

\* executeInProcess: processedCode after the two replacements.
ProcessCode(code) == RegexRemove(RegexRemove(code, ThenCatchRegex), ThenRegex)

\* Whether evaluating the processed code calls main() by itself.
CallsMain(code) ==
    \E i \in 2..(Len(code) - 2) :
        /\ code[i] = "main" /\ code[i + 1] = "(" /\ code[i + 2] = ")"
        /\ code[i - 1] # "async function"

\* ----------------------------------------------- relevance responses

IsSpace(c) == c = " "

RECURSIVE TrimStart(_)
TrimStart(s) == IF Len(s) > 0 /\ IsSpace(Head(s)) THEN TrimStart(Tail(s)) ELSE s

RECURSIVE TrimEnd(_)
TrimEnd(s) ==
    IF Len(s) > 0 /\ IsSpace(s[Len(s)]) THEN TrimEnd(SubSeq(s, 1, Len(s) - 1)) ELSE s

\* String.prototype.trim().
Trim(s) == TrimEnd(TrimStart(s))

DigitValue(c) ==
    CASE c = "0" -> 0 [] c = "1" -> 1 [] c = "2" -> 2 [] c = "3" -> 3 [] c = "4" -> 4
      [] c = "5" -> 5 [] c = "6" -> 6 [] c = "7" -> 7 [] c = "8" -> 8 [] c = "9" -> 9

\* The number of leading decimal digits of s.
RECURSIVE LeadingDigits(_)
LeadingDigits(s) ==
    IF Len(s) > 0 /\ Head(s) \in Digits THEN 1 + LeadingDigits(Tail(s)) ELSE 0

RECURSIVE DecimalValue(_)
DecimalValue(ds) ==
    IF Len(ds) = 0 THEN 0
    ELSE 10 * DecimalValue(SubSeq(ds, 1, Len(ds) - 1)) + DigitValue(ds[Len(ds)])

NaN == [nan |-> TRUE, n |-> 0]

\* parseInt(s) without a radix: leading white space, an optional sign, then
\* the longest run of decimal digits; NaN when there is no digit.  (No
\* modelled response starts with the hexadecimal prefix 0x.)
parseInt(s) ==
    LET t == TrimStart(s)
        signed == Len(t) > 0 /\ Head(t) \in {"-", "+"}
        u == IF signed THEN Tail(t) ELSE t
        d == LeadingDigits(u)
        v == DecimalValue(SubSeq(u, 1, d))
    IN  IF d = 0 THEN NaN
        ELSE [nan |-> FALSE, n |-> IF signed /\ Head(t) = "-" THEN 0 - v ELSE v]

NoneText == <<"n", "o", "n", "e">>

\* filterToolBatch's filter over the parsed numbers.
IsSelectedIndex(n, batchLength) == ~n.nan /\ n.n >= 1 /\ n.n <= batchLength

\* filterToolBatch's try branch once the relevance call has returned response.
ParseResponse(batch, response) ==
    LET trimmedResponse == ToLower(Trim(response))
    IN  IF trimmedResponse = NoneText \/ trimmedResponse = <<>>
        THEN <<>>
        ELSE
            LET tokens == Split(trimmedResponse, ",")
                numbers == [k \in 1..Len(tokens) |-> parseInt(Trim(tokens[k]))]
                selectedIndices ==
                    SelectSeq(numbers, LAMBDA n : IsSelectedIndex(n, Len(batch)))
            IN  [k \in 1..Len(selectedIndices) |-> batch[selectedIndices[k].n].path]

\* A catch branch that fails closed: the batch is dropped.
BatchOnErrorDropsBatch(batch) == <<>>

\* filterToolBatch's catch branch: every path of the batch.
BatchOnError(batch) == [k \in 1..Len(batch) |-> batch[k].path]

\* filterToolBatch reads item.tool.parameters before its try block: a tool
\* that getToolByPath did not find (null) makes it throw a TypeError there.
PromptThrows(batch) == \E k \in 1..Len(batch) : batch[k].tool = NotFound

\* What a relevance call hands back: a text, or an error.
TextResponse(text) == [kind |-> "text", text |-> text]
ErrorResponse == [kind |-> "error", text |-> <<>>]
NoResponse == [kind |-> "none", text |-> <<>>]

\* The value of the promise filterToolBatch(batch) for a relevance outcome.
filterToolBatch(batch, response) ==
    IF response.kind = "error"
    THEN BatchOnError(batch)
    ELSE ParseResponse(batch, response.text)

\* The texts a relevance call of the model may return: "none", one index,
\* two indices in reverse order, one index twice, a text with a token
\* that is no number and an index that is out of range, and a token that
\* begins with a digit and goes on with a letter.
ResponseTexts ==
    { NoneText,
      <<"1">>,
      <<"2", ",", "1">>,
      <<"1", ",", "1">>,
      <<"x", ",", " ", "9">>,
      <<"2", "x">> }

\* ------------------------------------------------------- the batch filter

Min(x, y) == IF x <= y THEN x ELSE y

\* A slice whose end is inclusive: neighbouring batches overlap.
SliceInclusive(arr, from, to) == SubSeq(arr, from + 1, Min(to + 1, Len(arr)))

\* Array.prototype.slice(from, to): 0-based, to exclusive and clamped.
Slice(arr, from, to) == SubSeq(arr, from + 1, Min(to, Len(arr)))

\* allTools = allToolPaths.map(path => ({path, tool: getToolByPath(catalog, path)!}))
AllTools(cat) ==
    LET allToolPaths == listAllToolPaths(cat, <<>>)
    IN  [k \in 1..Len(allToolPaths) |->
            [path |-> allToolPaths[k], tool |-> getToolByPath(cat, allToolPaths[k])]]

\* The batching loop, from index k on.
RECURSIVE BatchesFrom(_, _, _)
BatchesFrom(allTools, size, k) ==
    IF k >= Len(allTools) THEN <<>>
    ELSE <<Slice(allTools, k, k + size)>> \o BatchesFrom(allTools, size, k + size)

MakeBatches(allTools, size) == BatchesFrom(allTools, size, 0)

\* A wave that takes every batch that is left, whatever the width.
WaveSliceUnbounded(count, from, width) == [k \in 1..(count - from) |-> from + k]

\* The indices (1-based) of batches.slice(from, from + width).
WaveSlice(count, from, width) ==
    [k \in 1..(Min(from + width, count) - from) |-> from + k]

\* The wave the loop is awaiting.
CurrentWave == WaveSlice(Len(batches), iWave, maxConcurrentThreads)

\* Results collected as the promises are fulfilled, in completion order.
WaveResultsByCompletion(values, wave, done) == [k \in 1..Len(wave) |-> values[done[k]]]

\* await Promise.all(promises): the promises' values in the order of the
\* promises, whatever the order (done) in which they were fulfilled.
WaveResults(values, wave, done) == [k \in 1..Len(wave) |-> values[wave[k]]]

\* results.forEach(result => selectedPaths.push(...result))
\* A collection that stops at the first result that holds no path.
RECURSIVE PushAllUntilEmpty(_, _)
PushAllUntilEmpty(selected, waveResults) ==
    IF Len(waveResults) = 0 \/ Len(Head(waveResults)) = 0 THEN selected
    ELSE PushAllUntilEmpty(selected \o Head(waveResults), Tail(waveResults))

RECURSIVE PushAll(_, _)
PushAll(selected, waveResults) ==
    IF Len(waveResults) = 0 THEN selected
    ELSE PushAll(selected \o Head(waveResults), Tail(waveResults))

\* The catalogs the filter runs on: a tool provider's, of growing size, and
\* one with a key that holds the path separator.
FilterPlaces ==
    << <<(<<"a">>), (<<"a">>)>>, <<(<<"a">>), (<<"b">>)>>,
       <<(<<"b">>), (<<"a">>)>>, <<(<<"b">>), (<<"b">>)>>, <<(<<"c">>)>> >>

DottedPlaces == << <<(<<"a">>), (<<"a">>)>>, <<(<<"a", ".", "b">>)>> >>

\* A catalog whose only key holds a sub-catalog without tools.
HollowCatalog == MkCatalog(<<[key |-> <<"a">>, value |-> EmptyCatalog]>>)

FilterCatalogs ==
    {CatalogWith(SubSeq(FilterPlaces, 1, n)) : n \in 0..Min(MaxTools, Len(FilterPlaces))}
    \cup {CatalogWith(DottedPlaces), HollowCatalog}

\* An early return that hands the catalog back as it came.
EmptyFilterResultKeepsCatalog(cat) ==
    [filteredCatalog |-> cat, totalTools |-> 0, selectedTools |-> 0, selectedPaths |-> <<>>]

\* filterToolsForQuery's early return: { filteredCatalog: {}, totalTools: 0,
\* selectedTools: 0, selectedPaths: [] }.
EmptyFilterResult(cat) ==
    [filteredCatalog |-> EmptyCatalog, totalTools |-> 0, selectedTools |-> 0,
     selectedPaths |-> <<>>]

\* ------------------------------------------------- catalog utilities spec

\* The batch filter's variables while no filter runs.
FilterIdle ==
    /\ maxToolsPerPrompt = 0
    /\ maxConcurrentThreads = 0
    /\ batches = <<>>
    /\ iWave = 0
    /\ callState = <<>>
    /\ responses = <<>>
    /\ results = <<>>
    /\ completed = <<>>
    /\ totalTools = 0
    /\ selectedTools = 0

\* The call names' variables before any name is made.
NamesIdle ==
    /\ interfacesCode = <<>>
    /\ functionDeclarations = <<>>
    /\ toolFunctions = <<>>
    /\ calledName = <<>>

NoProgram == [calls |-> <<>>, guarded |-> FALSE, entry |-> <<>>]

NoMain == [status |-> "none", pos |-> 0, rejected |-> FALSE]

NoMains == [m \in {"own", "wirer"} |-> NoMain]

NoExecResult == [success |-> FALSE, toolsWired |-> 0, error |-> "none"]

\* The execution wirer's variables while executeCode has not been called.
ExecIdle ==
    /\ mainCode = NoProgram
    /\ processedCode = <<>>
    /\ mainInvocations = 0
    /\ toolLog = <<>>
    /\ mains = NoMains
    /\ execResult = NoExecResult

NoRunResult == [kind |-> "none", resultType |-> "none", error |-> "none"]

\* CodeModeMCP.runEnvironment when none was configured, and the environments
\* a caller may configure.
NoEnvironment == "none"

Environments == {"env1", "env2"}

\* runMCPCode's variables while it has not been called.
RunIdle ==
    /\ runEnvironment = NoEnvironment
    /\ consumed = <<>>
    /\ maxToolCalls = 0
    /\ latency = 0
    /\ clock = 0
    /\ stages = <<>>
    /\ timings = <<>>
    /\ pseudocode = "none"
    /\ compilesSuccessfully = FALSE
    /\ executeCodeCalls = 0
    /\ runResult = NoRunResult

\* No catalog is held by reference.
HeapIdle ==
    /\ heap = <<>>
    /\ filteredRoot = 0

\* No interface is being made.
ParamsIdle ==
    /\ parameters = <<>>
    /\ interfaceMembers = <<>>

StagesIdle == NamesIdle /\ ExecIdle /\ RunIdle

\* Any selection of tool paths of the catalog, in any order.
Selections(cat) ==
    LET paths == listAllToolPaths(cat, <<>>)
    IN  {s \in SeqsUpTo(Range(paths), Len(paths)) : NoDup(s)}

InitCatalog ==
    /\ pc = "reconstruct"
    /\ catalog \in Catalogs
    /\ selectedPaths \in Selections(catalog)
    /\ filteredCatalog = EmptyCatalog
    /\ flatPaths = <<>>
    /\ FilterIdle
    /\ StagesIdle
    /\ HeapIdle
    /\ ParamsIdle

\* filteredCatalog = reconstructCatalog(catalog, selectedPaths)
Reconstruct ==
    /\ pc = "reconstruct"
    /\ filteredCatalog' = reconstructCatalog(catalog, selectedPaths)
    /\ pc' = "flatten"
    /\ UNCHANGED <<stageVars, catalog, selectedPaths, flatPaths, filterVars>>

\* listAllToolPaths(filteredCatalog)
Flatten ==
    /\ pc = "flatten"
    /\ flatPaths' = listAllToolPaths(filteredCatalog, <<>>)
    /\ pc' = "flattened"
    /\ UNCHANGED <<stageVars, catalog, selectedPaths, filteredCatalog, filterVars>>

NextCatalog == Reconstruct \/ Flatten

SpecCatalog == InitCatalog /\ [][NextCatalog]_vars

\* ------------------------------------------------ parameter interfaces

\* The words of parameter kinds.
KindString == <<"s", "t", "r", "i", "n", "g">>
KindStringUpper == <<"S", "T", "R", "I", "N", "G">>
KindNumber == <<"n", "u", "m", "b", "e", "r">>
KindInteger == <<"i", "n", "t", "e", "g", "e", "r">>
KindIntegerCapital == <<"I", "n", "t", "e", "g", "e", "r">>
KindInt == <<"i", "n", "t">>
KindBoolean == <<"b", "o", "o", "l", "e", "a", "n">>
KindBoolCapital == <<"B", "o", "o", "l">>
KindBool == <<"b", "o", "o", "l">>
KindArray == <<"a", "r", "r", "a", "y">>
KindObject == <<"o", "b", "j", "e", "c", "t">>
KindFile == <<"f", "i", "l", "e">>

\* String.prototype.includes.
Includes(text, word) ==
    \E i \in 1..(Len(text) - Len(word) + 1) : SubSeq(text, i, i + Len(word) - 1) = word

\* A classification that reads the kind as it is written.
mapTypeStringToTSTypeAsWritten(typeString) ==
    LET lowerType == typeString
    IN  IF Includes(lowerType, KindString) THEN "string"
        ELSE IF Includes(lowerType, KindNumber) \/ Includes(lowerType, KindInt) THEN "number"
        ELSE IF Includes(lowerType, KindBoolean) \/ Includes(lowerType, KindBool) THEN "boolean"
        ELSE IF Includes(lowerType, KindArray) THEN "any[]"
        ELSE IF Includes(lowerType, KindObject) THEN "Record<string, any>"
        ELSE "any"

\* mapTypeStringToTSType: the first of the tests that the kind, in lower
\* case, passes.
mapTypeStringToTSType(typeString) ==
    LET lowerType == ToLower(typeString)
    IN  IF Includes(lowerType, KindString) THEN "string"
        ELSE IF Includes(lowerType, KindNumber) \/ Includes(lowerType, KindInt) THEN "number"
        ELSE IF Includes(lowerType, KindBoolean) \/ Includes(lowerType, KindBool) THEN "boolean"
        ELSE IF Includes(lowerType, KindArray) THEN "any[]"
        ELSE IF Includes(lowerType, KindObject) THEN "Record<string, any>"
        ELSE "any"

\* ts.factory.createPropertySignature(undefined, name, questionToken, type)
PropertySignature(param) ==
    [name |-> param.name,
     questionToken |-> ~param.required,
     type |-> mapTypeStringToTSType(param.type)]

\* The kinds a tool may give its parameters: the kinds of a JSON schema in
\* either case, a short form, an array written with brackets, and a kind of
\* the provider's own.
ParameterKinds ==
    { KindString, KindStringUpper, KindIntegerCapital, KindBoolCapital, KindArray,
      KindObject, KindFile, KindString \o <<"[", "]">> }

ParameterNames == { <<"p">>, <<"q">> }

ToolParameters ==
    SeqsUpTo([name : ParameterNames, type : ParameterKinds, required : BOOLEAN], MaxParams)

InitParams ==
    /\ pc = "params_start"
    /\ parameters \in ToolParameters
    /\ interfaceMembers = <<>>
    /\ catalog = EmptyCatalog
    /\ selectedPaths = <<>>
    /\ filteredCatalog = EmptyCatalog
    /\ flatPaths = <<>>
    /\ FilterIdle
    /\ StagesIdle
    /\ HeapIdle

\* generateToolInterfaceCode: tool.parameters.map(param => ...)
SynthesizeMembers ==
    /\ pc = "params_start"
    /\ interfaceMembers' = [k \in 1..Len(parameters) |-> PropertySignature(parameters[k])]
    /\ pc' = "params_done"
    /\ UNCHANGED <<catalog, selectedPaths, filteredCatalog, flatPaths, filterVars, nameVars,
                   execVars, runInputs, pseudocode, compilesSuccessfully, executeCodeCalls,
                   runResult, clock, stages, timings, heapVars, parameters, consumed>>

NextParams == SynthesizeMembers

SpecParams == InitParams /\ [][NextParams]_vars

\* ------------------------------------------- catalogs held by reference

\* The objects of a catalog laid out in a heap: an entry's value is the
\* reference (the index) of the object it holds, 0 is null, and the root is
\* the last object laid out.
RECURSIVE Alloc(_, _), AllocEntries(_, _, _)
Alloc(h, obj) ==
    IF isMCPTool(obj)
    THEN [heap |-> Append(h, obj), ref |-> Len(h) + 1]
    ELSE LET r == AllocEntries(h, obj.entries, 1)
         IN  [heap |-> Append(r.heap, MkCatalog(r.entries)), ref |-> Len(r.heap) + 1]

AllocEntries(h, entries, i) ==
    IF i > Len(entries) THEN [heap |-> h, entries |-> <<>>]
    ELSE LET a == Alloc(h, entries[i].value)
             rest == AllocEntries(a.heap, entries, i + 1)
         IN  [heap |-> rest.heap,
              entries |-> <<[key |-> entries[i].key, value |-> a.ref]>> \o rest.entries]

HeapOf(cat) == Alloc(<<>>, cat)

\* The value that a reference holds.
RECURSIVE Deref(_, _)
Deref(h, ref) ==
    [h[ref] EXCEPT !.entries =
        [k \in 1..Len(h[ref].entries) |->
            [key |-> h[ref].entries[k].key, value |-> Deref(h, h[ref].entries[k].value)]]]

\* The objects that can be reached from a reference.
RECURSIVE Reachable(_, _)
Reachable(h, ref) ==
    {ref} \cup UNION {Reachable(h, h[ref].entries[k].value) : k \in 1..Len(h[ref].entries)}

\* getToolByPath on references: the tool's reference, or null.
RECURSIVE HeapWalk(_, _, _)
HeapWalk(h, current, parts) ==
    IF Len(parts) = 0
    THEN (IF isMCPTool(h[current]) THEN current ELSE 0)
    ELSE IF isMCPTool(h[current]) THEN 0
    ELSE IF HasKey(h[current], Head(parts))
         THEN HeapWalk(h, GetKey(h[current], Head(parts)), Tail(parts))
         ELSE 0

\* reconstructCatalog's navigate/create loop and final assignment for one
\* path: `current[part] = {}` allocates, `current[lastPart] = tool` stores
\* the reference of the original's tool.
RECURSIVE HeapInsert(_, _, _, _)
HeapInsert(h, current, parts, tool) ==
    IF Len(parts) = 1
    THEN [h EXCEPT ![current] = SetKey(h[current], parts[1], tool)]
    ELSE LET part == Head(parts)
         IN  IF HasKey(h[current], part)
             THEN HeapInsert(h, GetKey(h[current], part), Tail(parts), tool)
             ELSE HeapInsert(
                      Append([h EXCEPT ![current] = SetKey(h[current], part, Len(h) + 1)],
                             EmptyCatalog),
                      Len(h) + 1, Tail(parts), tool)

RECURSIVE HeapReconstructFrom(_, _, _, _, _)
HeapReconstructFrom(h, root, originalCatalog, paths, i) ==
    IF i > Len(paths) THEN h
    ELSE
        LET tool == HeapWalk(h, originalCatalog, Split(paths[i], "."))
        IN  IF tool = 0
            THEN HeapReconstructFrom(h, root, originalCatalog, paths, i + 1)
            ELSE HeapReconstructFrom(HeapInsert(h, root, Split(paths[i], "."), tool),
                                     root, originalCatalog, paths, i + 1)

\* A result that is built into the catalog it was given.
NewCatalogIsOriginal(h, originalCatalog) == [heap |-> h, ref |-> originalCatalog]

\* `const catalog: ToolCatalog = {}`
NewCatalog(h, originalCatalog) == [heap |-> Append(h, EmptyCatalog), ref |-> Len(h) + 1]

\* reconstructCatalog on references: the heap it leaves and the reference it returns.
HeapReconstructCatalog(h, originalCatalog, paths) ==
    LET new == NewCatalog(h, originalCatalog)
    IN  [heap |-> HeapReconstructFrom(new.heap, new.ref, originalCatalog, paths, 1),
         ref |-> new.ref]

InitHeap ==
    /\ pc = "heap_start"
    /\ catalog \in Catalogs
    /\ selectedPaths \in Selections(catalog)
    /\ filteredCatalog = EmptyCatalog
    /\ flatPaths = <<>>
    /\ FilterIdle
    /\ StagesIdle
    /\ heap = HeapOf(catalog).heap
    /\ filteredRoot = 0
    /\ ParamsIdle

\* reconstructCatalog(originalCatalog, selectedPaths) on the heap.
HeapReconstruct ==
    /\ pc = "heap_start"
    /\ LET r == HeapReconstructCatalog(heap, HeapOf(catalog).ref, selectedPaths)
       IN  /\ heap' = r.heap
           /\ filteredRoot' = r.ref
           /\ filteredCatalog' = Deref(r.heap, r.ref)
    /\ pc' = "heap_done"
    /\ UNCHANGED <<catalog, selectedPaths, flatPaths, filterVars, nameVars, execVars, runInputs,
                   pseudocode, compilesSuccessfully, executeCodeCalls, runResult, clock, stages,
                   timings, paramVars, consumed>>

NextHeap == HeapReconstruct

SpecHeap == InitHeap /\ [][NextHeap]_vars

\* ------------------------------------------------------ call names spec

\* A provider's catalog, every tool of it kept by the filter.
InitNames ==
    /\ pc = "names_start"
    /\ catalog \in ProviderCatalogs
    /\ filteredCatalog = catalog
    /\ selectedPaths = listAllToolPaths(catalog, <<>>)
    /\ flatPaths = <<>>
    /\ FilterIdle
    /\ StagesIdle
    /\ HeapIdle
    /\ ParamsIdle

\* generateToolsCode(filteredCatalog): one interface per tool path.
SynthesizeInterfaces ==
    /\ pc = "names_start"
    /\ interfacesCode' = generateToolsCode(filteredCatalog)
    /\ pc' = "names_interfaces"
    /\ UNCHANGED <<catalog, selectedPaths, filteredCatalog, flatPaths, filterVars,
                   functionDeclarations, toolFunctions, calledName, execVars, runVars>>

\* implementCode: generateFunctionDeclarations(interfacesCode).
DeclareFunctions ==
    /\ pc = "names_interfaces"
    /\ functionDeclarations' = generateFunctionDeclarations(interfacesCode)
    /\ pc' = "names_declared"
    /\ UNCHANGED <<catalog, selectedPaths, filteredCatalog, flatPaths, filterVars,
                   interfacesCode, toolFunctions, calledName, execVars, runVars>>

\* executeCode: allToolPaths = listAllToolPaths(catalog), buildToolFunctions.
WireTools ==
    /\ pc = "names_declared"
    /\ flatPaths' = listAllToolPaths(filteredCatalog, <<>>)
    /\ toolFunctions' = buildToolFunctions(filteredCatalog, flatPaths')
    /\ pc' = "names_wired"
    /\ UNCHANGED <<catalog, selectedPaths, filteredCatalog, filterVars,
                   interfacesCode, functionDeclarations, calledName, execVars, runVars>>

\* The evaluated program calls a function by a name the declarations gave it.
CallByName(name) ==
    /\ pc = "names_wired"
    /\ name \in Range(functionDeclarations)
    /\ calledName' = name
    /\ pc' = "names_called"
    /\ UNCHANGED <<catalog, selectedPaths, filteredCatalog, flatPaths, filterVars,
                   interfacesCode, functionDeclarations, toolFunctions, execVars, runVars>>

NextNames ==
    \/ SynthesizeInterfaces
    \/ DeclareFunctions
    \/ WireTools
    \/ \E name \in Range(functionDeclarations) : CallByName(name)

SpecNames == InitNames /\ [][NextNames]_vars

\* main() runs from its call number pos up to its next await: a call by a
\* name the scope does not bind throws a ReferenceError, a bound name logs
\* the tool path and calls tool.execute.  A guarded main() catches what is
\* thrown inside it and returns normally.
Advance(program, functions, pos, log) ==
    IF pos > Len(program.calls)
    THEN [main |-> [status |-> "returned", pos |-> pos, rejected |-> FALSE], log |-> log]
    ELSE IF program.calls[pos] \notin BoundNames(functions)
    THEN [main |-> [status |-> IF program.guarded THEN "returned" ELSE "threw", pos |-> pos,
                    rejected |-> FALSE],
          log |-> log]
    ELSE [main |-> [status |-> "awaiting", pos |-> pos, rejected |-> FALSE],
          log |-> Append(log, Binding(functions, program.calls[pos]).path)]

\* The call names a model may write for a catalog: the bound ones and one more.
UnknownName == <<"N", "O">>

CallNames(cat) ==
    BoundNames(buildToolFunctions(cat, listAllToolPaths(cat, <<>>))) \cup {UnknownName}

Programs(cat) ==
    [calls : SeqsUpTo(CallNames(cat), MaxCalls), guarded : BOOLEAN, entry : Entries]

\* A place whose key is no JavaScript identifier.
HyphenPlaces == << <<(<<"a">>), (<<"x", "-", "y">>)>> >>

\* The catalogs the wirer is given: none, one or two tools, and one whose
\* tool path does not make an identifier.
ExecCatalogs ==
    {CatalogWith(SubSeq(FilterPlaces, 1, n)) : n \in 0..2} \cup {CatalogWith(HyphenPlaces)}

\* Whether a name can stand in `const { name } = toolFunctions`.
IsIdentifier(name) ==
    /\ Len(name) > 0
    /\ name[1] \notin Digits
    /\ \A k \in 1..Len(name) : name[k] \in WordChars

\* new AsyncFunction('toolFunctions', wrappedCode) throws a SyntaxError.
EvaluationThrows(functions) == \E name \in BoundNames(functions) : ~IsIdentifier(name)

\* The early return that never fires.
NoToolsNeverReturns(paths) == FALSE

\* `if (allToolPaths.length === 0)`
NoTools(paths) == Len(paths) = 0

\* The result that counts no wired tool when the execution failed.
ExecOutcomeDropsCount(returned, error, wired) ==
    [success |-> returned, toolsWired |-> IF returned THEN wired ELSE 0,
     error |-> IF returned THEN "none" ELSE error]

\* executeCode's result after the try block: success with the tools wired,
\* or the caught error with the tools wired.
ExecOutcome(returned, error, wired) ==
    [success |-> returned, toolsWired |-> wired, error |-> IF returned THEN "none" ELSE error]

\* ------------------------------------------------- execution wirer spec

InitExec ==
    /\ pc = "exec_start"
    /\ filteredCatalog \in ExecCatalogs
    /\ catalog = filteredCatalog
    /\ selectedPaths = listAllToolPaths(filteredCatalog, <<>>)
    /\ flatPaths = <<>>
    /\ FilterIdle
    /\ NamesIdle
    /\ mainCode \in Programs(filteredCatalog)
    /\ processedCode = <<>>
    /\ mainInvocations = 0
    /\ toolLog = <<>>
    /\ mains = NoMains
    /\ execResult = NoExecResult
    /\ RunIdle
    /\ HeapIdle
    /\ ParamsIdle

\* executeCode on a catalog without tools: the early return.
ExecEmpty ==
    /\ pc = "exec_start"
    /\ NoTools(listAllToolPaths(filteredCatalog, <<>>))
    /\ execResult' = [success |-> FALSE, toolsWired |-> 0, error |-> "No tools available"]
    /\ pc' = "exec_done"
    /\ UNCHANGED <<catalog, selectedPaths, filteredCatalog, flatPaths, filterVars, nameVars,
                   mainCode, processedCode, mainInvocations, toolLog, mains, runVars>>

\* executeCode up to the first await of the evaluated code: the bindings are
\* built, the entry statement is looked for and removed, the code is
\* evaluated (a main() call that is left in it runs first), and the wirer
\* calls main().
ExecEvaluate ==
    /\ pc = "exec_start"
    /\ ~NoTools(listAllToolPaths(filteredCatalog, <<>>))
    /\ flatPaths' = listAllToolPaths(filteredCatalog, <<>>)
    /\ toolFunctions' = buildToolFunctions(filteredCatalog, flatPaths')
    /\ ~EvaluationThrows(toolFunctions')
    /\ processedCode' = ProcessCode(CodeText(mainCode))
    /\ LET own == IF CallsMain(processedCode')
                  THEN Advance(mainCode, toolFunctions', 1, toolLog)
                  ELSE [main |-> NoMain, log |-> toolLog]
           wirer == Advance(mainCode, toolFunctions', 1, own.log)
       IN  /\ mains' = [m \in {"own", "wirer"} |-> IF m = "own" THEN own.main ELSE wirer.main]
           /\ toolLog' = wirer.log
           /\ mainInvocations' = mainInvocations + (IF CallsMain(processedCode') THEN 2 ELSE 1)
    /\ pc' = "exec_running"
    /\ UNCHANGED <<catalog, selectedPaths, filteredCatalog, filterVars, interfacesCode,
                   functionDeclarations, calledName, mainCode, execResult, runVars>>

\* executeCode when the wrapped code does not parse: the SyntaxError is caught.
ExecEvaluateThrows ==
    /\ pc = "exec_start"
    /\ ~NoTools(listAllToolPaths(filteredCatalog, <<>>))
    /\ flatPaths' = listAllToolPaths(filteredCatalog, <<>>)
    /\ toolFunctions' = buildToolFunctions(filteredCatalog, flatPaths')
    /\ EvaluationThrows(toolFunctions')
    /\ processedCode' = ProcessCode(CodeText(mainCode))
    /\ execResult' = ExecOutcome(FALSE, "SyntaxError", Len(flatPaths'))
    /\ pc' = "exec_done"
    /\ UNCHANGED <<catalog, selectedPaths, filteredCatalog, filterVars, interfacesCode,
                   functionDeclarations, calledName, mainCode, mainInvocations, toolLog,
                   mains, runVars>>

\* tool.execute of the call main() m awaits resolves: main() runs on.
ToolResolves(m) ==
    /\ mains[m].status = "awaiting"
    /\ LET next == Advance(mainCode, toolFunctions, mains[m].pos + 1, toolLog)
       IN  /\ mains' = [mains EXCEPT ![m] = next.main]
           /\ toolLog' = next.log
    /\ UNCHANGED <<pc, catalog, selectedPaths, filteredCatalog, flatPaths, filterVars, nameVars,
                   mainCode, processedCode, mainInvocations, execResult, runVars>>

\* tool.execute of the call main() m awaits rejects: the binding rethrows.
ToolRejects(m) ==
    /\ mains[m].status = "awaiting"
    /\ mains' = [mains EXCEPT ![m] =
                    [status |-> IF mainCode.guarded THEN "returned" ELSE "threw",
                     pos |-> mains[m].pos, rejected |-> TRUE]]
    /\ UNCHANGED <<pc, catalog, selectedPaths, filteredCatalog, flatPaths, filterVars, nameVars,
                   mainCode, processedCode, mainInvocations, toolLog, execResult, runVars>>

\* `return await main()` settles: executeCode returns its result.
ExecReturn ==
    /\ pc = "exec_running"
    /\ mains["wirer"].status \in {"returned", "threw"}
    /\ execResult' = ExecOutcome(mains["wirer"].status = "returned", "thrown", Len(flatPaths))
    /\ pc' = "exec_done"
    /\ UNCHANGED <<catalog, selectedPaths, filteredCatalog, flatPaths, filterVars, nameVars,
                   mainCode, processedCode, mainInvocations, toolLog, mains, runVars>>

NextExec ==
    \/ ExecEmpty
    \/ ExecEvaluate
    \/ ExecEvaluateThrows
    \/ \E m \in {"own", "wirer"} : ToolResolves(m)
    \/ \E m \in {"own", "wirer"} : ToolRejects(m)
    \/ ExecReturn

SpecExec == InitExec /\ [][NextExec]_vars

\* ------------------------------------------------------- runMCPCode spec

\* verifyTypeScriptCompilation of interfaces, declarations and program: an
\* interface whose name is no identifier is a syntax error, a call by a name
\* that is not declared is a semantic error.
verifyTypeScriptCompilation(interfaces, declarations, program) ==
    /\ \A k \in 1..Len(interfaces) : \A c \in 1..Len(interfaces[k]) : interfaces[k][c] \in WordChars
    /\ \A k \in 1..Len(program.calls) : program.calls[k] \in Range(declarations)

\* The guard with the early return taken out: no program is held back.
RunCompileFailedGuardOff == FALSE

\* `if (!implementResult.compilesSuccessfully)`
CompileFailed == ~compilesSuccessfully

\* What the relevance model may answer for a batch, or that its call fails.
BatchOutcomes == {TextResponse(text) : text \in ResponseTexts} \cup {ErrorResponse}

\* The results of the batches from number b on, pushed in order.
RECURSIVE CollectFrom(_, _, _)
CollectFrom(bs, outcome, b) ==
    IF b > Len(bs) THEN <<>>
    ELSE filterToolBatch(bs[b], outcome[b]) \o CollectFrom(bs, outcome, b + 1)

\* The catalogs a run is given: none to two tools, and a key with a dot.
\* A catalog that keeps a tool with an identifier for a name under a key
\* that is none.
HyphenKeyCatalog ==
    InsertAt(EmptyCatalog, <<(<<"a">>), (<<"x", "-", "y">>)>>, MkTool(<<"X", "Y">>))

RunCatalogs == ExecCatalogs \cup {CatalogWith(DottedPlaces), HyphenKeyCatalog}

\* filterToolsForQuery: the batches of the run's catalog.
RunBatches ==
    IF Len(listAllToolPaths(catalog, <<>>)) = 0 THEN <<>>
    ELSE MakeBatches(AllTools(catalog), maxToolsPerPrompt)

Returned(resultType) == [kind |-> "returned", resultType |-> resultType, error |-> "none"]

Thrown(error) == [kind |-> "thrown", resultType |-> "none", error |-> error]

\* A result type that tells a failed execution as a partial result.
ResultTypePartial(success) == IF success THEN "success" ELSE "partial"

\* resultType: executeResult.success ? 'success' : 'failure'
ResultType(success) == IF success THEN "success" ELSE "failure"

\* The statement that follows a stage of runMCPCode.
StageAfterAsSpecified(stage) ==
    CASE stage = "run_called" -> "run_filter"
      [] stage = "run_filter" -> "run_interfaces"
      [] stage = "run_interfaces" -> "run_start"
      [] stage = "run_start" -> "run_implement"
      [] OTHER -> "run_implemented"

\* The order of the steps in runMCPCode's body: 1 plan, 2 filter,
\* 3 interfaces, 4 implement (with the compile check).
StageAfter(stage) ==
    CASE stage = "run_called" -> "run_start"
      [] stage = "run_start" -> "run_filter"
      [] stage = "run_filter" -> "run_interfaces"
      [] stage = "run_interfaces" -> "run_implement"
      [] OTHER -> "run_implemented"

\* A plan stage that passes the model's failure on.
PlanOutcomeRethrows(answered) ==
    [plan |-> IF answered THEN "model" ELSE "none", thrown |-> ~answered]

\* generatePseudocode: the model's plan, or the fallback plan from the catch.
PlanOutcome(answered) ==
    [plan |-> IF answered THEN "model" ELSE "fallback", thrown |-> FALSE]

\* timings.push({ stepName, durationMs, startTime, endTime })
Timed(ledger, stepName, startTime, endTime) ==
    Append(ledger, [stepName |-> stepName, durationMs |-> endTime - startTime,
                    startTime |-> startTime, endTime |-> endTime])

\* A ledger that lists the compile check only when it passed.
VerifyTimedOnSuccessOnly(ledger, compiles, startTime, endTime) ==
    IF compiles
    THEN Timed(ledger, "Verify TypeScript Compilation", startTime, endTime)
    ELSE ledger

\* Step 5: the entry of the compile check; its duration is 0 when the check
\* failed.
VerifyTimed(ledger, compiles, startTime, endTime) ==
    Append(ledger, [stepName |-> "Verify TypeScript Compilation",
                    durationMs |-> IF compiles THEN endTime - startTime ELSE 0,
                    startTime |-> startTime, endTime |-> endTime])

\* What a stage is handed of the instance: this.tools and this.runEnvironment
\* as they are when the stage is called.
Read(stage) == [stage |-> stage, tools |-> catalog, runEnvironment |-> runEnvironment]

Init ==
    /\ pc = StageAfter("run_called")
    /\ catalog \in RunCatalogs
    /\ maxToolsPerPrompt \in 1..MaxBatch
    /\ maxConcurrentThreads = MaxThreads
    /\ runEnvironment \in {NoEnvironment, "env1"}
    /\ consumed = <<>>
    /\ maxToolCalls = 1
    /\ latency \in 0..1
    /\ clock = 0
    /\ stages = <<>>
    /\ timings = <<>>
    /\ selectedPaths = <<>>
    /\ filteredCatalog = EmptyCatalog
    /\ flatPaths = <<>>
    /\ batches = <<>>
    /\ iWave = 0
    /\ callState = <<>>
    /\ responses = <<>>
    /\ results = <<>>
    /\ completed = <<>>
    /\ totalTools = 0
    /\ selectedTools = 0
    /\ NamesIdle
    /\ ExecIdle
    /\ pseudocode = "none"
    /\ compilesSuccessfully = FALSE
    /\ executeCodeCalls = 0
    /\ runResult = NoRunResult
    /\ HeapIdle
    /\ ParamsIdle

\* Step 1, generatePseudocode: the plan model answers, or its call fails and
\* the fallback plan is returned.
RunPseudocode(answered) ==
    /\ pc = "run_start"
    /\ stages' = Append(stages, "plan")
    /\ consumed' = Append(consumed, Read("plan"))
    /\ pseudocode' = PlanOutcome(answered).plan
    /\ IF PlanOutcome(answered).thrown
       THEN /\ runResult' = Thrown("strategyLLM")
            /\ pc' = "run_thrown"
            /\ UNCHANGED <<clock, timings>>
       ELSE /\ clock' = clock + latency
            /\ timings' = Timed(timings, "Generate Pseudocode (strategyLLM)", clock, clock')
            /\ pc' = StageAfter("run_start")
            /\ UNCHANGED runResult
    /\ UNCHANGED <<catalog, selectedPaths, filteredCatalog, flatPaths, filterVars, nameVars,
                   execVars, runInputs, heapVars, paramVars, compilesSuccessfully,
                   executeCodeCalls>>

\* Step 2, filterToolsForQuery, returns: every batch got its outcome.
RunFilterReturns(outcome) ==
    /\ pc = "run_filter"
    /\ \A b \in 1..Len(RunBatches) : ~PromptThrows(RunBatches[b])
    /\ stages' = Append(stages, "filter")
    /\ consumed' = Append(consumed, Read("filter"))
    /\ batches' = RunBatches
    /\ totalTools' = Len(listAllToolPaths(catalog, <<>>))
    /\ selectedPaths' = CollectFrom(RunBatches, outcome, 1)
    /\ selectedTools' = Len(selectedPaths')
    /\ filteredCatalog' = reconstructCatalog(catalog, selectedPaths')
    /\ clock' = clock + latency
    /\ timings' = Timed(timings, "Filter Tools (tinyLLM)", clock, clock')
    /\ pc' = StageAfter("run_filter")
    /\ UNCHANGED <<catalog, flatPaths, maxToolsPerPrompt, maxConcurrentThreads, iWave,
                   callState, responses, results, completed, nameVars, execVars, runInputs,
                   heapVars, paramVars,
                   pseudocode, compilesSuccessfully, executeCodeCalls, runResult>>

\* Step 2 rejects: a filterToolBatch threw while it built its prompt.
RunFilterRejects ==
    /\ pc = "run_filter"
    /\ \E b \in 1..Len(RunBatches) : PromptThrows(RunBatches[b])
    /\ stages' = Append(stages, "filter")
    /\ consumed' = Append(consumed, Read("filter"))
    /\ runResult' = Thrown("TypeError")
    /\ pc' = "run_thrown"
    /\ UNCHANGED <<catalog, selectedPaths, filteredCatalog, flatPaths, filterVars, nameVars,
                   execVars, runInputs, heapVars, paramVars, pseudocode, compilesSuccessfully,
                   executeCodeCalls,
                   clock, timings>>

\* Step 3 with a run environment: generateToolsCode(filteredCatalog).
RunInterfaces ==
    /\ pc = "run_interfaces"
    /\ runEnvironment # NoEnvironment
    /\ stages' = Append(stages, "interfaces")
    /\ consumed' = Append(consumed, Read("interfaces"))
    /\ interfacesCode' = generateToolsCode(filteredCatalog)
    /\ clock' = clock + latency
    /\ timings' = Timed(timings, "Generate TypeScript Interfaces", clock, clock')
    /\ pc' = StageAfter("run_interfaces")
    /\ UNCHANGED <<catalog, selectedPaths, filteredCatalog, flatPaths, filterVars,
                   functionDeclarations, toolFunctions, calledName, execVars, runInputs,
                   heapVars, paramVars,
                   pseudocode, compilesSuccessfully, executeCodeCalls, runResult>>

\* Step 3 without a run environment: the throw.
RunNoEnvironment ==
    /\ pc = "run_interfaces"
    /\ runEnvironment = NoEnvironment
    /\ runResult' = Thrown("Run environment is required")
    /\ pc' = "run_thrown"
    /\ UNCHANGED <<catalog, selectedPaths, filteredCatalog, flatPaths, filterVars, nameVars,
                   execVars, runInputs, heapVars, paramVars, pseudocode, compilesSuccessfully,
                   executeCodeCalls,
                   clock, stages, timings, consumed>>

\* Step 4, implementCode: the main model answers with a program, the
\* functions are declared, the whole is compiled; step 5 enters the compile
\* check in the ledger.
RunImplement(program) ==
    /\ pc = "run_implement"
    /\ stages' = stages \o <<"implement", "compile">>
    /\ mainCode' = program
    /\ functionDeclarations' = generateFunctionDeclarations(interfacesCode)
    /\ compilesSuccessfully' =
           verifyTypeScriptCompilation(interfacesCode, functionDeclarations', program)
    /\ clock' = clock + latency
    /\ timings' = VerifyTimed(Timed(timings, "Implement Code (mainLLM)", clock, clock'),
                              compilesSuccessfully', clock', clock')
    /\ pc' = StageAfter("run_implement")
    /\ UNCHANGED <<catalog, selectedPaths, filteredCatalog, flatPaths, filterVars,
                   interfacesCode, toolFunctions, calledName, processedCode, mainInvocations,
                   toolLog, mains, execResult, runInputs, heapVars, paramVars, pseudocode,
                   executeCodeCalls,
                   runResult, consumed>>

\* Step 4 rejects: the main model's call fails; implementCode does not catch it.
RunImplementRejects ==
    /\ pc = "run_implement"
    /\ stages' = Append(stages, "implement")
    /\ runResult' = Thrown("mainLLM")
    /\ pc' = "run_thrown"
    /\ UNCHANGED <<catalog, selectedPaths, filteredCatalog, flatPaths, filterVars, nameVars,
                   execVars, runInputs, heapVars, paramVars, pseudocode, compilesSuccessfully,
                   executeCodeCalls,
                   clock, timings, consumed>>

\* The early return on a program that does not compile.
RunCompileFailed ==
    /\ pc = "run_implemented"
    /\ CompileFailed
    /\ runResult' = Returned("failure")
    /\ pc' = "run_returned"
    /\ UNCHANGED <<catalog, selectedPaths, filteredCatalog, flatPaths, filterVars, nameVars,
                   execVars, runInputs, heapVars, paramVars, pseudocode, compilesSuccessfully,
                   executeCodeCalls,
                   clock, stages, timings, consumed>>

\* Step 6: executeCode is called with the program and the filtered catalog.
RunExecute ==
    /\ pc = "run_implemented"
    /\ ~CompileFailed
    /\ stages' = Append(stages, "execute")
    /\ consumed' = Append(consumed, Read("execute"))
    /\ executeCodeCalls' = executeCodeCalls + 1
    /\ pc' = "exec_start"
    /\ UNCHANGED <<catalog, selectedPaths, filteredCatalog, flatPaths, filterVars, nameVars,
                   execVars, runInputs, heapVars, paramVars, pseudocode, compilesSuccessfully,
                   runResult,
                   clock, timings>>

\* executeCode has returned: its entry goes to the ledger, the result type
\* follows its success.
RunReturn ==
    /\ pc = "exec_done"
    /\ clock' = clock + latency
    /\ timings' = Timed(timings, "Wire and Execute Code", clock, clock')
    /\ runResult' = Returned(ResultType(execResult.success))
    /\ pc' = "run_returned"
    /\ UNCHANGED <<catalog, selectedPaths, filteredCatalog, flatPaths, filterVars, nameVars,
                   execVars, runInputs, heapVars, paramVars, pseudocode, compilesSuccessfully,
                   executeCodeCalls,
                   stages, consumed>>

Next ==
    \/ \E answered \in BOOLEAN : RunPseudocode(answered)
    \/ \E outcome \in [1..Len(RunBatches) -> BatchOutcomes] : RunFilterReturns(outcome)
    \/ RunFilterRejects
    \/ RunInterfaces
    \/ RunNoEnvironment
    \/ \E program \in Programs(filteredCatalog) : RunImplement(program)
    \/ RunImplementRejects
    \/ RunCompileFailed
    \/ RunExecute
    \/ ExecEmpty
    \/ ExecEvaluate
    \/ ExecEvaluateThrows
    \/ \E m \in {"own", "wirer"} : ToolResolves(m)
    \/ \E m \in {"own", "wirer"} : ToolRejects(m)
    \/ ExecReturn
    \/ RunReturn

Spec == Init /\ [][Next]_vars

\* ------------------------------- the instance's setters during a run

\* Where a run is suspended at the await of step 1, 2, 3 or 4: the step
\* has been called with what it is handed, and the next step has not.
Suspended == pc \in {"run_filter", "run_interfaces", "run_implement", "run_implemented"}

\* The catalogs a caller may put in place of the instance's.
SetCatalogs == {CatalogWith(SubSeq(FilterPlaces, 1, n)) : n \in 0..1}

\* setToolCatalog(catalog), called while a run is suspended.
SetToolCatalog(cat) ==
    /\ Suspended
    /\ cat # catalog
    /\ catalog' = cat
    /\ UNCHANGED <<pc, selectedPaths, filteredCatalog, flatPaths, filterVars, stageVars>>

\* setRunEnvironment(environment), called while a run is suspended.
SetRunEnvironment(environment) ==
    /\ Suspended
    /\ environment # runEnvironment
    /\ runEnvironment' = environment
    /\ UNCHANGED <<pc, catalog, selectedPaths, filteredCatalog, flatPaths, filterVars, nameVars,
                   execVars, maxToolCalls, latency, pseudocode, compilesSuccessfully,
                   executeCodeCalls, runResult, clock, stages, timings, heapVars, paramVars,
                   consumed>>

\* The relevance outcomes and the programs of the runs that the setters are
\* called in: the first tool of the batch or a failed call, and the programs
\* that call no tool.
InstanceOutcomes == {TextResponse(<<"1">>), ErrorResponse}

InstancePrograms(cat) == {program \in Programs(cat) : program.calls = <<>> /\ ~program.guarded}

\* A run up to its call of executeCode, the last step that is handed a field
\* of the instance, with the setters called in between.
NextInstance ==
    \/ \E answered \in BOOLEAN : RunPseudocode(answered)
    \/ \E outcome \in [1..Len(RunBatches) -> InstanceOutcomes] : RunFilterReturns(outcome)
    \/ RunFilterRejects
    \/ RunInterfaces
    \/ RunNoEnvironment
    \/ \E program \in InstancePrograms(filteredCatalog) : RunImplement(program)
    \/ RunImplementRejects
    \/ RunCompileFailed
    \/ RunExecute
    \/ \E cat \in SetCatalogs : SetToolCatalog(cat)
    \/ \E environment \in Environments : SetRunEnvironment(environment)

SpecInstance == Init /\ [][NextInstance]_vars

\* ------------------------------------------------------ batch filter spec

InitFilter ==
    /\ pc = "filter_start"
    /\ catalog \in FilterCatalogs
    /\ maxToolsPerPrompt \in 1..MaxBatch
    /\ maxConcurrentThreads \in 1..MaxThreads
    /\ selectedPaths = <<>>
    /\ filteredCatalog = EmptyCatalog
    /\ flatPaths = <<>>
    /\ batches = <<>>
    /\ iWave = 0
    /\ callState = <<>>
    /\ responses = <<>>
    /\ results = <<>>
    /\ completed = <<>>
    /\ totalTools = 0
    /\ selectedTools = 0
    /\ StagesIdle
    /\ HeapIdle
    /\ ParamsIdle

\* filterToolsForQuery on an empty catalog: the early return.
FilterEmpty ==
    /\ pc = "filter_start"
    /\ Len(listAllToolPaths(catalog, <<>>)) = 0
    /\ pc' = "filter_done"
    /\ filteredCatalog' = EmptyFilterResult(catalog).filteredCatalog
    /\ totalTools' = EmptyFilterResult(catalog).totalTools
    /\ selectedTools' = EmptyFilterResult(catalog).selectedTools
    /\ selectedPaths' = EmptyFilterResult(catalog).selectedPaths
    /\ UNCHANGED <<stageVars, catalog, flatPaths, maxToolsPerPrompt, maxConcurrentThreads,
                   batches, iWave, callState, responses, results, completed>>

\* filterToolsForQuery up to its wave loop: flatten, look the tools up, batch.
FilterStart ==
    /\ pc = "filter_start"
    /\ Len(listAllToolPaths(catalog, <<>>)) # 0
    /\ totalTools' = Len(listAllToolPaths(catalog, <<>>))
    /\ batches' = MakeBatches(AllTools(catalog), maxToolsPerPrompt)
    /\ callState' = [b \in 1..Len(batches') |-> "unissued"]
    /\ responses' = [b \in 1..Len(batches') |-> NoResponse]
    /\ results' = [b \in 1..Len(batches') |-> <<>>]
    /\ iWave' = 0
    /\ pc' = "filter_loop"
    /\ UNCHANGED <<stageVars, catalog, selectedPaths, filteredCatalog, flatPaths, maxToolsPerPrompt,
                   maxConcurrentThreads, completed, selectedTools>>

\* One turn of the wave loop: batchSlice.map(batch => filterToolBatch(...))
\* runs every filterToolBatch of the wave up to its relevance call.
IssueWave ==
    /\ pc = "filter_loop"
    /\ iWave < Len(batches)
    /\ callState' =
         [b \in 1..Len(batches) |->
            IF b \in Range(CurrentWave)
            THEN (IF PromptThrows(batches[b]) THEN "rejected" ELSE "inflight")
            ELSE callState[b]]
    /\ completed' = <<>>
    /\ pc' = "filter_await"
    /\ UNCHANGED <<stageVars, catalog, selectedPaths, filteredCatalog, flatPaths, maxToolsPerPrompt,
                   maxConcurrentThreads, batches, iWave, responses, results,
                   totalTools, selectedTools>>

\* The relevance call of batch b returns a text: filterToolBatch's try branch.
RelevanceReturns(b, text) ==
    /\ callState[b] = "inflight"
    /\ responses' = [responses EXCEPT ![b] = TextResponse(text)]
    /\ results' = [results EXCEPT ![b] = filterToolBatch(batches[b], TextResponse(text))]
    /\ callState' = [callState EXCEPT ![b] = "fulfilled"]
    /\ completed' = Append(completed, b)
    /\ UNCHANGED <<stageVars, pc, catalog, selectedPaths, filteredCatalog, flatPaths,
                   maxToolsPerPrompt, maxConcurrentThreads, batches, iWave,
                   totalTools, selectedTools>>

\* The relevance call of batch b throws or rejects: filterToolBatch's catch branch.
RelevanceFails(b) ==
    /\ callState[b] = "inflight"
    /\ responses' = [responses EXCEPT ![b] = ErrorResponse]
    /\ results' = [results EXCEPT ![b] = filterToolBatch(batches[b], ErrorResponse)]
    /\ callState' = [callState EXCEPT ![b] = "fulfilled"]
    /\ completed' = Append(completed, b)
    /\ UNCHANGED <<stageVars, pc, catalog, selectedPaths, filteredCatalog, flatPaths,
                   maxToolsPerPrompt, maxConcurrentThreads, batches, iWave,
                   totalTools, selectedTools>>

\* Promise.all(promises) is fulfilled once every promise of the wave is.
WaveSettled(states, wave) == \A k \in 1..Len(wave) : states[wave[k]] = "fulfilled"

\* await Promise.all(promises) returns; the results are pushed; i += W.
AwaitWave ==
    /\ pc = "filter_await"
    /\ WaveSettled(callState, CurrentWave)
    /\ selectedPaths' = PushAll(selectedPaths, WaveResults(results, CurrentWave, completed))
    /\ iWave' = iWave + maxConcurrentThreads
    /\ pc' = "filter_loop"
    /\ UNCHANGED <<stageVars, catalog, filteredCatalog, flatPaths, maxToolsPerPrompt,
                   maxConcurrentThreads, batches, callState, responses, results,
                   completed, totalTools, selectedTools>>

\* await Promise.all(promises) throws: a promise of the wave was rejected, and
\* filterToolsForQuery rejects while the wave's other calls are still out.
AwaitRejects ==
    /\ pc = "filter_await"
    /\ \E k \in 1..Len(CurrentWave) : callState[CurrentWave[k]] = "rejected"
    /\ pc' = "filter_rejected"
    /\ UNCHANGED <<stageVars, catalog, selectedPaths, filteredCatalog, flatPaths, filterVars>>

\* The wave loop ends; reconstructCatalog; the result is returned.
FilterReturn ==
    /\ pc = "filter_loop"
    /\ iWave >= Len(batches)
    /\ filteredCatalog' = reconstructCatalog(catalog, selectedPaths)
    /\ selectedTools' = Len(selectedPaths)
    /\ pc' = "filter_done"
    /\ UNCHANGED <<stageVars, catalog, selectedPaths, flatPaths, maxToolsPerPrompt,
                   maxConcurrentThreads, batches, iWave, callState, responses, results,
                   completed, totalTools>>

NextFilter ==
    \/ FilterEmpty
    \/ FilterStart
    \/ IssueWave
    \/ \E b \in DOMAIN callState : \E text \in ResponseTexts : RelevanceReturns(b, text)
    \/ \E b \in DOMAIN callState : RelevanceFails(b)
    \/ AwaitWave
    \/ AwaitRejects
    \/ FilterReturn

SpecFilter == InitFilter /\ [][NextFilter]_vars

\* ----------------------------------------------------------------- claims

\* The paths of batch b.
BatchPaths(b) == {batches[b][k].path : k \in 1..Len(batches[b])}

\* C2: when the relevance call of a batch throws or rejects, every tool path
\* of that batch is in the selectedPaths that filterToolsForQuery returns,
\* whatever the other batches' calls did.
C2_FailOpen ==
    pc = "filter_done" =>
        \A b \in DOMAIN responses :
            responses[b].kind = "error" => BatchPaths(b) \subseteq Range(selectedPaths)

\* A returned run in which one batch's call failed and another batch's call
\* returned a text that kept none of its tools.
C2_Witness ==
    /\ pc = "filter_done"
    /\ \E b, c \in DOMAIN responses :
        /\ responses[b].kind = "error"
        /\ responses[c].kind = "text"
        /\ results[c] = <<>>
        /\ BatchPaths(b) # {}

\* C6: the selectedPaths that filterToolsForQuery returns never holds the
\* same tool path twice.
C6_NoDuplicatePaths ==
    pc = "filter_done" => NoDup(selectedPaths)

\* The relevance calls that are in flight.
InFlight == {b \in DOMAIN callState : callState[b] = "inflight"}

\* C7: at every moment at most maxConcurrentThreads relevance calls are in
\* flight, and a call is in flight only when every call of the waves before
\* its own has returned or failed.
C7_BoundedWaves ==
    /\ Cardinality(InFlight) <= maxConcurrentThreads
    /\ \A b \in InFlight :
        /\ b > iWave
        /\ \A c \in DOMAIN callState : c <= iWave => callState[c] = "fulfilled"

\* A second wave in flight at full width.
C7_Witness ==
    /\ iWave > 0
    /\ Cardinality(InFlight) = maxConcurrentThreads
    /\ maxConcurrentThreads > 1

\* The per-batch values, batch by batch in submission order.
RECURSIVE InSubmissionOrder(_)
InSubmissionOrder(b) ==
    IF b > Len(batches) THEN <<>>
    ELSE filterToolBatch(batches[b], responses[b]) \o InSubmissionOrder(b + 1)

\* C8: the returned selectedPaths is the concatenation of the per-batch
\* results in submission order, a function of the catalog, the options and
\* the per-batch responses alone, whatever the order of completion.
C8_SubmissionOrder ==
    pc = "filter_done" /\ totalTools > 0 => selectedPaths = InSubmissionOrder(1)

\* A returned run whose last wave completed out of submission order, with
\* different non-empty results.
C8_Witness ==
    /\ pc = "filter_done"
    /\ Len(completed) = 2
    /\ completed[1] > completed[2]
    /\ results[completed[1]] # <<>>
    /\ results[completed[2]] # <<>>
    /\ results[completed[1]] # results[completed[2]]

\* The concatenation of the batches.
RECURSIVE ConcatBatches(_)
ConcatBatches(bs) == IF Len(bs) = 0 THEN <<>> ELSE Head(bs) \o ConcatBatches(Tail(bs))

\* C9: the N flattened tools are cut into exactly ceil(N/B) batches that are
\* contiguous and in flattening order: their concatenation is the flattened
\* list, so each tool is in exactly one batch.
C9_BatchPartition ==
    (pc # "filter_start" /\ totalTools > 0) =>
        /\ Len(batches) = (totalTools + maxToolsPerPrompt - 1) \div maxToolsPerPrompt
        /\ ConcatBatches(batches) = AllTools(catalog)
        /\ [k \in 1..totalTools |-> ConcatBatches(batches)[k].path]
             = listAllToolPaths(catalog, <<>>)
        /\ \A b \in 1..Len(batches) :
             Len(batches[b]) >= 1 /\ Len(batches[b]) <= maxToolsPerPrompt

\* A partition whose last batch is not full.
C9_Witness ==
    /\ pc = "filter_await"
    /\ Len(batches) >= 2
    /\ Len(batches[Len(batches)]) < maxToolsPerPrompt
    /\ Len(batches[1]) = maxToolsPerPrompt

\* C10: flattening the catalog reconstructed from a selection S of the tool
\* paths of a catalog yields exactly the paths of S.
C10_RoundTrip ==
    pc = "flattened" => Range(flatPaths) = Range(selectedPaths)

\* C4: for every tool path of the filtered catalog, the name the wirer binds
\* the tool under is the name declared for that tool (its interface's name
\* without "Params", present among the declared functions), and a call by a
\* declared name resolves to the binding of the tool that has that name.
C4_SameCallName ==
    /\ pc \in {"names_wired", "names_called"} =>
          \A k \in 1..Len(flatPaths) :
              \E j \in 1..Len(toolFunctions) :
                  /\ toolFunctions[j].value.path = flatPaths[k]
                  /\ interfacesCode[k] = toolFunctions[j].key \o ParamsText
                  /\ toolFunctions[j].key \in Range(functionDeclarations)
    /\ pc = "names_called" =>
          /\ calledName \in BoundNames(toolFunctions)
          /\ interfaceName(Binding(toolFunctions, calledName).tool)
                 = calledName \o ParamsText

\* C3: when the program ends with the entry statement the implementation
\* prompt prescribes and the wirer has evaluated it, the statement was
\* removed before evaluation, main() was entered exactly once in the run
\* and no tool call of the program happened more than once.
C3_EntryOnce ==
    (pc \in {"exec_running", "exec_done"} /\ Len(flatPaths) > 0
        /\ mainCode.entry = PrescribedEntry) =>
        /\ ~CallsMain(processedCode)
        /\ mainInvocations = 1
        /\ Len(toolLog) <= Len(mainCode.calls)

\* C1: in every run of runMCPCode, once the compile check has reported
\* failure, executeCode is not called, main() is not entered and no tool
\* call is logged, and the run returns resultType 'failure'.
C1_CompileFailureStops ==
    (pc \in {"run_implemented", "run_returned", "exec_start", "exec_running", "exec_done"}
        /\ ~compilesSuccessfully) =>
        /\ executeCodeCalls = 0
        /\ mainInvocations = 0
        /\ toolLog = <<>>
        /\ pc \in {"run_implemented", "run_returned"}
        /\ pc = "run_returned" => runResult = Returned("failure")

\* A run whose program calls a name that is not declared has returned.
C1_Witness ==
    /\ pc = "run_returned"
    /\ ~compilesSuccessfully
    /\ \E k \in 1..Len(mainCode.calls) : mainCode.calls[k] \notin Range(functionDeclarations)
    /\ Len(listAllToolPaths(filteredCatalog, <<>>)) > 0
    /\ runResult.resultType = "failure"

\* C5: runMCPCode never throws or rejects; whatever fails in a stage, the
\* run ends by returning a result.
C5_NeverThrows == runResult.kind # "thrown"

\* C11: the binding table has exactly one entry per tool path of the
\* filtered catalog: no two tool paths share a canonical name, so no binding
\* replaces another.
C11_OneBindingPerPath ==
    pc \in {"names_wired", "names_called"} =>
        /\ Len(toolFunctions) = Len(flatPaths)
        /\ \A k \in 1..Len(flatPaths) :
               \E j \in 1..Len(toolFunctions) : toolFunctions[j].value.path = flatPaths[k]

\* C12: when tool.execute of a call that the wirer's main() awaited has
\* rejected, the run returns resultType 'failure'.
C12_ToolFailureSurfaces ==
    (pc = "run_returned" /\ mains["wirer"].rejected) => runResult.resultType = "failure"

C14_EmptyCatalogFailsFast ==
    (pc = "exec_done" /\ Len(listAllToolPaths(filteredCatalog, <<>>)) = 0) =>
        /\ ~execResult.success
        /\ execResult.toolsWired = 0
        /\ toolFunctions = <<>>
        /\ processedCode = <<>>
        /\ mainInvocations = 0
        /\ toolLog = <<>>

\* executeCode has returned on an empty catalog, given a program that calls main().
C14_Witness ==
    /\ pc = "exec_done"
    /\ Len(listAllToolPaths(filteredCatalog, <<>>)) = 0
    /\ mainCode.entry = PrescribedEntry
    /\ execResult.error = "No tools available"

\* C15: in a run on a catalog without tools, executeCode is never called
\* and the run ends by returning resultType 'failure', whatever program the
\* implementation model returns.
C15_EmptyCatalogRun ==
    (Len(listAllToolPaths(catalog, <<>>)) = 0
        /\ pc \in {"run_implemented", "exec_start", "exec_running", "exec_done", "run_returned"}) =>
        /\ executeCodeCalls = 0
        /\ pc = "run_returned" => runResult = Returned("failure")

\* C16: on a catalog whose flattening is empty, filterToolsForQuery returns
\* totalTools = 0, selectedTools = 0, selectedPaths = [] and
\* filteredCatalog = {} without making batches or relevance calls.
C16_EmptyFilter ==
    (pc = "filter_done" /\ Len(listAllToolPaths(catalog, <<>>)) = 0) =>
        /\ totalTools = 0
        /\ selectedTools = 0
        /\ selectedPaths = <<>>
        /\ filteredCatalog = EmptyCatalog
        /\ batches = <<>>
        /\ callState = <<>>
        /\ responses = <<>>

\* The filter has returned on a catalog that has a key but no tool.
C16_Witness ==
    /\ pc = "filter_done"
    /\ Len(listAllToolPaths(catalog, <<>>)) = 0
    /\ catalog # EmptyCatalog

\* C17: when the strategy model's call fails, generatePseudocode does not
\* throw: no run ends on that failure, the plan is the fallback plan, and
\* the run goes on to the next stage with it.
C17_PlanFallback ==
    /\ runResult # Thrown("strategyLLM")
    /\ "plan" \in Range(stages) =>
           /\ pseudocode \in {"model", "fallback"}
           /\ Len(timings) > 0
           /\ timings[1].stepName = "Generate Pseudocode (strategyLLM)"
           /\ pc # "run_start"

\* A run whose plan is the fallback plan went through every stage and
\* returned success.
C17_Witness ==
    /\ pseudocode = "fallback"
    /\ pc = "run_returned"
    /\ runResult = Returned("success")

\* The order of the stages as the specification lists it, and as the steps
\* of runMCPCode are numbered.
IsPrefix(s, t) == Len(s) <= Len(t) /\ s = SubSeq(t, 1, Len(s))

SpecifiedOrder == <<"filter", "interfaces", "plan", "implement", "compile", "execute">>

StepOrder == <<"plan", "filter", "interfaces", "implement", "compile", "execute">>

StepNames(ledger) == [k \in 1..Len(ledger) |-> ledger[k].stepName]

LedgerOrder ==
    <<"Generate Pseudocode (strategyLLM)", "Filter Tools (tinyLLM)",
      "Generate TypeScript Interfaces", "Implement Code (mainLLM)",
      "Verify TypeScript Compilation", "Wire and Execute Code">>

\* C19: the ledger a run returns lists the six steps in order when the
\* program compiled and the first five when it did not; every entry starts
\* no later than it ends, and no entry starts before the one before it ended.
C19_Ledger ==
    pc = "run_returned" =>
        /\ StepNames(timings) =
               IF compilesSuccessfully THEN LedgerOrder ELSE SubSeq(LedgerOrder, 1, 5)
        /\ \A k \in 1..Len(timings) : timings[k].startTime <= timings[k].endTime
        /\ \A k \in 2..Len(timings) : timings[k - 1].endTime <= timings[k].startTime

\* A run whose stages take time returned after a failed compile check with
\* five entries.
C19_Witness ==
    /\ pc = "run_returned"
    /\ ~compilesSuccessfully
    /\ latency > 0
    /\ Len(timings) = 5
    /\ timings[5].startTime > timings[1].startTime

\* A run whose stages take time returned with all six entries.
C19_WitnessExecuted ==
    /\ pc = "run_returned"
    /\ compilesSuccessfully
    /\ latency > 0
    /\ Len(timings) = 6

\* C20: in one run, the tools are invoked through the bindings at most
\* options.maxToolCalls times.
C20_MaxToolCalls == Len(toolLog) <= maxToolCalls

\* Whether a token is a number: an optional sign and decimal digits, nothing else.
IsNumeral(token) ==
    LET t == Trim(token)
        u == IF Len(t) > 0 /\ Head(t) \in {"-", "+"} THEN Tail(t) ELSE t
    IN  Len(u) > 0 /\ \A k \in 1..Len(u) : u[k] \in Digits

\* The paths of a batch that a response names by numeric tokens in [1, size].
NamedPaths(batch, text) ==
    LET tokens == Split(ToLower(Trim(text)), ",")
        kept == SelectSeq(tokens, LAMBDA token :
                    /\ IsNumeral(token)
                    /\ parseInt(token).n >= 1
                    /\ parseInt(token).n <= Len(batch))
    IN  [k \in 1..Len(kept) |-> batch[parseInt(kept[k]).n].path]

\* C21: of a relevance response, every token that is no number or whose
\* index is outside [1, batch size] is discarded, so a batch's result holds
\* the paths its numeric in-range tokens name, all of them paths of the
\* batch; 'none' and the empty response select nothing.
C21_StrictParse ==
    \A b \in DOMAIN responses :
        responses[b].kind = "text" =>
            /\ Range(results[b]) \subseteq BatchPaths(b)
            /\ results[b] = NamedPaths(batches[b], responses[b].text)
            /\ ToLower(Trim(responses[b].text)) \in {NoneText, <<>>} => results[b] = <<>>

\* The paths looked up in a catalog: its tool paths, each of them cut before
\* its last segment and continued by one segment, and paths of keys that
\* may be missing.
ProbePaths(cat) ==
    LET listed == Range(listAllToolPaths(cat, <<>>))
        CutLast(path) ==
            LET parts == Split(path, ".")
            IN  Join(SubSeq(parts, 1, Len(parts) - 1), <<".">>)
    IN  listed
        \cup {CutLast(path) : path \in listed}
        \cup {path \o <<".", "a">> : path \in listed}
        \cup {<<"a">>, <<"b">>, <<"z">>, <<"a", ".", "z">>, <<"a", ".", "b">>}

\* C22: getToolByPath(catalog, p) returns a tool exactly when p is one of
\* listAllToolPaths(catalog), and null for every other path.
C22_LookupFindsListed ==
    \A path \in ProbePaths(catalog) :
        isMCPTool(getToolByPath(catalog, path))
            <=> path \in Range(listAllToolPaths(catalog, <<>>))

\* C23: the compile check fails every program that calls a name which is
\* not declared and passes every program that calls declared names only.
C23_CompileGate ==
    "compile" \in Range(stages) =>
        (compilesSuccessfully <=>
            \A k \in 1..Len(mainCode.calls) : mainCode.calls[k] \in Range(functionDeclarations))

\* C24: no object of the catalog that is given is written to: after
\* reconstructCatalog the original has the same keys, nesting and tool
\* objects as before, and the filtered catalog is a new object, as are the
\* catalogs nested in it; its tools are the original's tool objects.
C24_CatalogNotMutated ==
    pc = "heap_done" =>
        LET original == HeapOf(catalog)
        IN  /\ \A ref \in 1..Len(original.heap) : heap[ref] = original.heap[ref]
            /\ Deref(heap, original.ref) = catalog
            /\ filteredRoot > Len(original.heap)
            /\ \A ref \in Reachable(heap, filteredRoot) :
                   IF isMCPTool(heap[ref])
                   THEN ref \in Reachable(heap, original.ref)
                   ELSE ref > Len(original.heap)
            /\ filteredCatalog = reconstructCatalog(catalog, selectedPaths)

\* A filtered catalog with two tools, one of them in a nested catalog, was
\* built from a catalog with more tools.
C24_Witness ==
    /\ pc = "heap_done"
    /\ Len(listAllToolPaths(filteredCatalog, <<>>)) = 2
    /\ Len(listAllToolPaths(catalog, <<>>)) > 2
    /\ Len(heap) > filteredRoot

\* The types that leave a field untyped.
AnyLike == {"any", "Record<string, any>"}

\* The type the classification gives a kind that is one of its words.
ClassOf(word) ==
    CASE word = KindString -> {"string"}
      [] word \in {KindNumber, KindInteger, KindInt} -> {"number"}
      [] word \in {KindBoolean, KindBool} -> {"boolean"}
      [] word = KindArray -> {"any[]"}
      [] OTHER -> AnyLike

C26_SelectedCount ==
    pc = "filter_done" =>
        /\ selectedTools = Len(listAllToolPaths(filteredCatalog, <<>>))
        /\ selectedTools <= totalTools

\* What a stage of the run was handed, if it was called.
ReadBy(stage) == {consumed[k] : k \in {j \in 1..Len(consumed) : consumed[j].stage = stage}}

\* C27: the stages of one run work on one catalog and one run environment,
\* also when the setters are called while the run is suspended: the catalog
\* the filter flattens is the one the plan was made from, and the run
\* environment of the execution is the one checked before the interfaces
\* were made.
C27_OneCatalogOneEnvironment ==
    /\ \A p \in ReadBy("plan") : \A f \in ReadBy("filter") : f.tools = p.tools
    /\ \A i \in ReadBy("interfaces") : \A e \in ReadBy("execute") :
           e.runEnvironment = i.runEnvironment

\* C28: batches are isolated.  What a batch contributes is settled by its
\* own response or failure alone and its promise is fulfilled whatever the
\* response is; the returned selectedPaths is the batches' contributions one
\* after the other, so no response adds to, removes from or reorders what
\* another batch contributes; and filterToolsForQuery never rejects because
\* of a response.
C28_BatchesIsolated ==
    /\ \A b \in DOMAIN responses :
           responses[b].kind # "none" =>
               /\ callState[b] = "fulfilled"
               /\ results[b] = filterToolBatch(batches[b], responses[b])
    /\ (pc = "filter_done" /\ totalTools > 0) => selectedPaths = ConcatBatches(results)
    /\ pc = "filter_rejected" =>
           /\ \E b \in DOMAIN batches : PromptThrows(batches[b])
           /\ \A b \in DOMAIN responses : callState[b] = "rejected" => responses[b].kind = "none"

\* The filter returned after a first batch whose response names no tool of
\* it, a failed call, and a batch whose response chose its first tool.
C28_Witness ==
    /\ pc = "filter_done"
    /\ Len(batches) >= 3
    /\ responses[1] = TextResponse(<<"x", ",", " ", "9">>)
    /\ responses[2] = ErrorResponse
    /\ responses[3] = TextResponse(<<"1">>)
    /\ selectedPaths = results[2] \o <<batches[3][1].path>>

\* ceil(x / y)
CeilDiv(x, y) == (x + y - 1) \div y

\* C29: on a catalog of N > 0 tools, with every relevance call returning
\* or failing in the end, filterToolsForQuery returns in the end: it does
\* not end otherwise, every wave it awaits is a wave of calls that are out
\* or settled, and when it has returned it has gone through
\* ceil(ceil(N/B)/W) waves and one relevance call per batch, ceil(N/B) in
\* all, each of them settled.
C29_FilterReturns ==
    /\ pc # "filter_rejected"
    /\ pc = "filter_await" =>
           \A k \in 1..Len(CurrentWave) : callState[CurrentWave[k]] \in {"inflight", "fulfilled"}
    /\ (pc = "filter_done" /\ totalTools > 0) =>
           /\ iWave = maxConcurrentThreads
                        * CeilDiv(CeilDiv(totalTools, maxToolsPerPrompt), maxConcurrentThreads)
           /\ Len(callState) = CeilDiv(totalTools, maxToolsPerPrompt)
           /\ \A b \in DOMAIN callState : callState[b] = "fulfilled"

\* C30: whenever runMCPCode returns a result, resultType is 'success'
\* exactly when the compile check passed and executeCode returned
\* success = true, and 'failure' otherwise; it is never 'partial'.
C30_ResultType ==
    pc = "run_returned" =>
        /\ runResult.kind = "returned"
        /\ runResult.resultType \in {"success", "failure"}
        /\ runResult.resultType = "success" <=>
               (compilesSuccessfully /\ executeCodeCalls = 1 /\ execResult.success)

\* A run returned after its program compiled and its execution failed.
C30_Witness ==
    /\ pc = "run_returned"
    /\ compilesSuccessfully
    /\ executeCodeCalls = 1
    /\ ~execResult.success
    /\ mainInvocations > 0
    /\ runResult = Returned("failure")

====
